---- MODULE Spec2Model ----
(***************************************************************************)
(* The task-lease scheduler of Orchestrator.py: the task pool `tasks`,     *)
(* the worker registry `workers`, the four protocol handlers, the timeout  *)
(* reclaimer (timeout_checker) and the drain coordinator                   *)
(* (shutdown_notifier).  Every handler and every background pass runs      *)
(* under the one module-level lock, so each is one atomic action; two       *)
(* operations are more than one step.  shutdown_notifier, once it has found *)
(* the fleet drained, makes its two external calls while it still holds     *)
(* `lock`; and dashboard, after its critical section, reads the length of   *)
(* the pool for the page it renders.                                        *)
(*                                                                         *)
(* Time.  The code reads a timestamp only as `now - timestamp`, so a       *)
(* worker's assignment_timestamp and processing_start are kept as the time *)
(* elapsed since they were set (NoTime when the field is None), saturating *)
(* at AgeCap, which is above every threshold the code compares against.    *)
(* timeout_checker wakes every SWEEP_PERIOD time units and a pass takes no *)
(* time; shutdown_notifier may run a pass at any moment.                   *)
(*                                                                         *)
(* Workers.  The handlers serve any caller in any order.  A worker may     *)
(* stall or disappear: `stalled` names the worker that has made its last   *)
(* protocol call (at most one per run) and which call that was.  Spec has  *)
(* no stalling worker; AckStallSpec and StallSpec have.                    *)
(***************************************************************************)
EXTENDS Integers, Sequences, FiniteSets, TLC

\* ---------------------------------------------------------------- bounds
NumTasks   == 3   \* at most this many tasks are discovered at startup
MaxWorkers == 2   \* at most this many workers register
MaxHist    == 1   \* a worker's history keeps its MaxHist latest events

\* ------------------------------------------------- configuration values
\* BATCH_SIZE, ACK_TIMEOUT and PROCESSING_TIMEOUT are read from the environment
\* (defaults 10, 60, 600); SWEEP_PERIOD is the sleep of timeout_checker (5).
\* They are scaled down, keeping SWEEP_PERIOD <= ACK_TIMEOUT < PROCESSING_TIMEOUT.
BATCH_SIZE         == 2
ACK_TIMEOUT        == 2
PROCESSING_TIMEOUT == 3
SWEEP_PERIOD       == 2

AgeCap == PROCESSING_TIMEOUT + SWEEP_PERIOD + 1
NoTime == -1

VARIABLES
  tasks,          \* the pool: list of task identifiers
  workers,        \* the registry, in registration order: workers[id] is a record
  completed,      \* completed[t]: times task t was cleared by a 'completed' report
  sweep_sleep,    \* time left until timeout_checker wakes up
  checker,        \* "running" or "crashed": the timeout_checker thread
  notifier,       \* "running" or "exited": the shutdown_notifier thread
  notifications,  \* calls of send_email_notification so far
  teardowns,      \* calls of shutdown_instance so far
  stalled,        \* the worker that has made its last protocol call, and that call
  lock,           \* "free", or the thread that holds the lock across steps
  dashboard_pc,   \* "idle" or "render": the dashboard request in flight
  agent           \* a Worker.py process: its position and what its steps did

vars == <<tasks, workers, completed, sweep_sleep,
          checker, notifier, notifications, teardowns, stalled,
          lock, dashboard_pc, agent>>

TaskIds   == 1..NumTasks
WorkerIds == 1..MaxWorkers

Min(a, b) == IF a < b THEN a ELSE b

\* ------------------------------------------------------------ assignments
None == [kind |-> "None", file_names |-> <<>>]

shutdown_assignment == [kind |-> "shutdown", file_names |-> <<>>]

batch_assignment(batch) == [kind |-> "batch", file_names |-> batch]

no_tasks_assignment == [kind |-> "no_tasks", file_names |-> <<>>]

\* mutant: only an assignment with files counts as an assignment
Truthy_files(a) == Len(a.file_names) > 0

\* Python truth value of worker.get('assignment'): None is false, a dict with keys is true
Truthy(a) == a.kind # "None"

\* ---------------------------------------------------------------- history
HistAppend(h, e) ==
  IF Len(h) < MaxHist THEN Append(h, e) ELSE Append(Tail(h), e)

\* --------------------------------------------------------------- the pool
\* mutant: the pool never counts as finished
all_tasks_completed_never(T) == FALSE

\* mutant: the pool counts as finished while one task is left
all_tasks_completed_but_one(T) == Len(T) <= 1

all_tasks_completed(T) == Len(T) = 0

\* mutant: the batch is taken from the back of the pool
take_batch_back(T) == SubSeq(T, Len(T) - Min(BATCH_SIZE, Len(T)) + 1, Len(T))

take_batch(T) == SubSeq(T, 1, Min(BATCH_SIZE, Len(T)))

\* mutant: the batch is not deleted from the pool
drop_batch_kept(T) == T

drop_batch(T) == SubSeq(T, Min(BATCH_SIZE, Len(T)) + 1, Len(T))

\* mutant: the returned batch is put at the front of the pool
extend_front(T, file_batch) == file_batch \o T

extend(T, file_batch) == T \o file_batch

\* ------------------------------------------------------------- responses
Resp(code, ret, a) == [code |-> code, ret |-> ret, assignment |-> a]

\* mutant: an unknown caller is registered on the fly
not_registered_created(T, W, ret) ==
  [tasks |-> T, workers |-> Append(W, [status |-> "idle", assignment |-> None,
                                       assignment_timestamp |-> NoTime,
                                       processing_start |-> NoTime,
                                       history |-> <<"registered">>]),
   response |-> Resp(404, ret, None)]

\* `if not worker: return jsonify({'error': 'Worker not registered'}), 404`
not_registered(T, W, ret) ==
  [tasks |-> T, workers |-> W, response |-> Resp(404, ret, None)]

\* ------------------------------------------------------------ register
new_worker ==
  [status |-> "idle", assignment |-> None, assignment_timestamp |-> NoTime,
   processing_start |-> NoTime, history |-> <<"registered">>]

register_worker(W) == Append(W, new_worker)

\* ------------------------------------------------------- get_assignment
get_assignment(T, W, id) ==
  IF id \notin DOMAIN W
  THEN not_registered(T, W, 213)
  ELSE LET worker == W[id] IN
    IF Truthy(worker.assignment)
    THEN [tasks |-> T, workers |-> W,
          response |-> Resp(200, 217, worker.assignment)]
    ELSE IF all_tasks_completed(T)
    THEN [tasks |-> T,
          workers |-> [W EXCEPT ![id] =
             [worker EXCEPT !.assignment = shutdown_assignment,
                            !.status = "shutdown",
                            !.history = HistAppend(@, "shutdown")]],
          response |-> Resp(200, 228, shutdown_assignment)]
    ELSE LET assignment == IF Len(T) > 0 THEN batch_assignment(take_batch(T))
                                         ELSE no_tasks_assignment
             T1 == IF Len(T) > 0 THEN drop_batch(T) ELSE T
         IN [tasks |-> T1,
             workers |-> [W EXCEPT ![id] =
                [worker EXCEPT !.assignment = assignment,
                               !.assignment_timestamp = 0,
                               !.status = "waiting_ack",
                               !.history = HistAppend(@, "assignment_assigned")]],
             response |-> Resp(200, 253, assignment)]

\* ------------------------------------------------- acknowledge_assignment
\* mutant: the acknowledgement leaves the ack deadline running
start_processing_stamped(worker) ==
  [worker EXCEPT !.status = "processing",
                 !.processing_start = 0,
                 !.history = HistAppend(@, "processing")]

\* lines 265-268
start_processing(worker) ==
  [worker EXCEPT !.status = "processing",
                 !.processing_start = 0,
                 !.history = HistAppend(@, "processing"),
                 !.assignment_timestamp = NoTime]

acknowledge_assignment(T, W, id) ==
  IF id \notin DOMAIN W
  THEN not_registered(T, W, 262)
  ELSE LET worker == W[id] IN
    IF ~Truthy(worker.assignment)
    THEN [tasks |-> T, workers |-> W, response |-> Resp(400, 264, None)]
    ELSE [tasks |-> T,
          workers |-> [W EXCEPT ![id] = start_processing(worker)],
          response |-> Resp(200, 269, None)]

\* ---------------------------------------------------------- update_status
StatusUpdates == {"completed", "failed", "processing", "shutting-down", "paused"}

\* mutant: a heartbeat restarts the processing clock
heartbeat_restarted(worker, hist) ==
  [worker EXCEPT !.history = hist, !.status = "processing", !.processing_start = 0]

\* lines 306-307
heartbeat(worker, hist) ==
  [worker EXCEPT !.history = hist, !.status = "processing"]

\* mutant: the status a worker without an assignment reports is stored verbatim
no_lease_status_verbatim(status_update) == status_update

\* lines 318-323: the status of a worker that reports without an assignment
no_lease_status(status_update) ==
  IF status_update = "shutting-down" THEN "shutting-down" ELSE "unavailable"

update_status(T, W, id, status_update) ==
  IF id \notin DOMAIN W
  THEN not_registered(T, W, 287)
  ELSE LET worker == W[id]
           current_assignment == worker.assignment
           hist == HistAppend(worker.history, status_update)
           cleared == [worker EXCEPT !.history = hist,
                                     !.assignment = None,
                                     !.assignment_timestamp = NoTime,
                                     !.processing_start = NoTime]
    IN IF Truthy(worker.assignment)
       THEN IF status_update = "completed"
            THEN [tasks |-> T,
                  workers |-> [W EXCEPT ![id] = [cleared EXCEPT !.status = "idle"]],
                  response |-> Resp(200, 326, None)]
            ELSE IF status_update = "failed"
            THEN [tasks |-> extend(T, current_assignment.file_names),
                  workers |-> [W EXCEPT ![id] = [cleared EXCEPT !.status = "failed"]],
                  response |-> Resp(200, 326, None)]
            ELSE IF status_update = "processing"
            THEN [tasks |-> T,
                  workers |-> [W EXCEPT ![id] = heartbeat(worker, hist)],
                  response |-> Resp(200, 326, None)]
            ELSE IF status_update = "shutting-down"
            THEN [tasks |-> T,
                  workers |-> [W EXCEPT ![id] =
                     [cleared EXCEPT !.status = "shutting-down"]],
                  response |-> Resp(200, 326, None)]
            ELSE [tasks |-> T,
                  workers |-> [W EXCEPT ![id] =
                     [worker EXCEPT !.history = hist, !.status = status_update]],
                  response |-> Resp(200, 326, None)]
       ELSE [tasks |-> T,
             workers |-> [W EXCEPT ![id] =
                [worker EXCEPT !.history = hist,
                               !.status = no_lease_status(status_update)]],
             response |-> Resp(200, 326, None)]

\* -------------------------------------------------------- timeout_checker
\* mutant: the ack timeout fires at the boundary
ack_expired_early(worker) ==
  /\ worker.status = "waiting_ack"
  /\ worker.assignment_timestamp # NoTime
  /\ worker.assignment_timestamp >= ACK_TIMEOUT

ack_expired(worker) ==
  /\ worker.status = "waiting_ack"
  /\ worker.assignment_timestamp # NoTime
  /\ worker.assignment_timestamp > ACK_TIMEOUT

\* mutant: the processing timeout fires at the boundary
processing_expired_early(worker) ==
  /\ worker.status = "processing"
  /\ worker.processing_start # NoTime
  /\ worker.processing_start >= PROCESSING_TIMEOUT

processing_expired(worker) ==
  /\ worker.status = "processing"
  /\ worker.processing_start # NoTime
  /\ worker.processing_start > PROCESSING_TIMEOUT

\* mutant: the assignment timestamp survives the ack timeout
ack_timeout_stamped(worker) ==
  [worker EXCEPT !.history = HistAppend(@, "ack_timeout"),
                 !.status = "unavailable",
                 !.assignment = None]

ack_timeout(worker) ==
  [worker EXCEPT !.history = HistAppend(@, "ack_timeout"),
                 !.status = "unavailable",
                 !.assignment = None,
                 !.assignment_timestamp = NoTime]

\* mutant: the processing start survives the processing timeout
processing_timeout_started(worker) ==
  [worker EXCEPT !.history = HistAppend(@, "processing_timeout"),
                 !.status = "unavailable",
                 !.assignment = None]

processing_timeout(worker) ==
  [worker EXCEPT !.history = HistAppend(@, "processing_timeout"),
                 !.status = "unavailable",
                 !.assignment = None,
                 !.processing_start = NoTime]

\* One iteration of the loop body for worker id.  assignment.get on a None
\* assignment raises AttributeError, which ends the thread.
check_worker(S, id) ==
  IF S.crashed THEN S
  ELSE LET w0 == S.workers[id] IN
    IF ack_expired(w0) /\ ~Truthy(w0.assignment) THEN [S EXCEPT !.crashed = TRUE]
    ELSE LET T1 == IF ack_expired(w0) THEN extend(S.tasks, w0.assignment.file_names)
                                      ELSE S.tasks
             w1 == IF ack_expired(w0) THEN ack_timeout(w0) ELSE w0
         IN IF processing_expired(w1) /\ ~Truthy(w1.assignment)
            THEN [tasks |-> T1, workers |-> [S.workers EXCEPT ![id] = w1],
                  crashed |-> TRUE]
            ELSE [tasks |-> IF processing_expired(w1)
                            THEN extend(T1, w1.assignment.file_names) ELSE T1,
                  workers |-> [S.workers EXCEPT ![id] =
                     IF processing_expired(w1) THEN processing_timeout(w1) ELSE w1],
                  crashed |-> FALSE]

RECURSIVE check_workers(_, _)
check_workers(S, id) ==
  IF id > Len(S.workers) THEN S
  ELSE check_workers(check_worker(S, id), id + 1)

timeout_checker(T, W) ==
  check_workers([tasks |-> T, workers |-> W, crashed |-> FALSE], 1)

\* ------------------------------------------------------ shutdown_notifier
\* mutant: an empty registry counts as drained
all_shutting_down_empty(W) ==
  \A id \in DOMAIN W : W[id].status = "shutting-down"

all_shutting_down(W) ==
  /\ Len(W) > 0
  /\ \A id \in DOMAIN W : W[id].status = "shutting-down"

\* -------------------------------------------------------------- dashboard
\* Task i stands for the key <input_prefix>/<i>; basename drops the prefix.
basename(p) == [base |-> p]

\* assignment['stripped_file_names'] = stripped_files, for an assignment that
\* has a 'file_names' list (the shutdown directive has none)
with_stripped_file_names(assignment) ==
  IF assignment.kind \in {"batch", "no_tasks"}
  THEN [kind |-> assignment.kind,
        file_names |-> assignment.file_names,
        stripped_file_names |->
           [i \in DOMAIN assignment.file_names |-> basename(assignment.file_names[i])]]
  ELSE assignment

\* The `with lock` block of dashboard.  worker_info is a shallow copy of the
\* worker's record, so the assignment it changes is the one the registry
\* holds; the snapshot is what the page shows.
dashboard(T, W) ==
  LET W1 == [id \in DOMAIN W |->
               [W[id] EXCEPT !.assignment = with_stripped_file_names(@)]]
  IN [tasks |-> T, workers |-> W1,
      response |-> [code |-> 200, ret |-> 172, workers_snapshot |-> W1]]

\* --------------------------------------------------------------- get_logs
get_logs(T, W) == [tasks |-> T, workers |-> W, response |-> Resp(200, 180, None)]

\* ------------------------------------------------------------------- time
Older(t) == IF t = NoTime THEN NoTime ELSE Min(t + 1, AgeCap)

advance(W) ==
  [id \in DOMAIN W |->
     [W[id] EXCEPT !.assignment_timestamp = Older(@),
                   !.processing_start = Older(@)]]

\* ------------------------------------------------------------------- bags
Count(seq, t) == Cardinality({i \in DOMAIN seq : seq[i] = t})

\* ------------------------------------------------------------ Worker.py
\* ShellRunner.exec_in_container: subprocess.run(..., check=True) raises
\* CalledProcessError when the script exits non-zero; the except clause of
\* exec_in_container prints the error, so the call returns either way.
exec_in_container(exit_zero) == IF exit_zero THEN "returned" ELSE "returned"

\* run_segmentation: False only if exec_in_container raises CalledProcessError
run_segmentation(exit_zero) ==
  IF exec_in_container(exit_zero) = "raised" THEN FALSE ELSE TRUE

\* download_files, upload_results: False as soon as an S3 transfer raises
download_files(transfers_ok) == transfers_ok

upload_results(transfers_ok) == transfers_ok

\* what a step of process_files did: "none" while it has not run
Outcome(success) == IF success THEN "ok" ELSE "failed"

\* process_files, from what its three steps did
process_files(download, segmentation, upload) ==
  IF ~download_files(download = "ok") THEN FALSE
  ELSE IF ~run_segmentation(segmentation = "ok") THEN FALSE
  ELSE IF ~upload_results(upload = "ok") THEN FALSE
  ELSE TRUE

not_started ==
  [pc |-> "register", worker_id |-> 0, download |-> "none",
   segmentation |-> "none", upload |-> "none", reported |-> "none"]

\* ================================================================ actions
NoStall == [id |-> 0, call |-> "none"]

Init ==
  /\ tasks = [i \in 1..NumTasks |-> i]
  /\ workers = <<>>
  /\ completed = [t \in TaskIds |-> 0]
  /\ sweep_sleep = SWEEP_PERIOD
  /\ checker = "running"
  /\ notifier = "running"
  /\ notifications = 0
  /\ teardowns = 0
  /\ stalled = NoStall
  /\ lock = "free"
  /\ dashboard_pc = "idle"
  /\ agent = not_started

\* what a protocol handler leaves alone besides completed and stalled
Background ==
  <<sweep_sleep, checker, notifier, notifications, teardowns, lock, dashboard_pc,
    agent>>

\* worker id may call; if final, this call is the last it ever makes.  The
\* handler runs once it gets the lock.
Calls(id, call, final) ==
  /\ lock = "free"
  /\ stalled.id # id
  /\ IF final THEN /\ stalled = NoStall
                   /\ id \in DOMAIN workers
                   /\ stalled' = [id |-> id, call |-> call]
              ELSE UNCHANGED stalled

Register ==
  /\ lock = "free"
  /\ Len(workers) < MaxWorkers
  /\ workers' = register_worker(workers)
  /\ UNCHANGED <<tasks, completed, Background, stalled>>

GetAssignment(id, final) ==
  /\ Calls(id, "get_assignment", final)
  /\ LET r == get_assignment(tasks, workers, id) IN
       /\ tasks' = r.tasks
       /\ workers' = r.workers
  /\ UNCHANGED <<completed, Background>>

Acknowledge(id, final) ==
  /\ Calls(id, "acknowledge_assignment", final)
  /\ LET r == acknowledge_assignment(tasks, workers, id) IN
       /\ tasks' = r.tasks
       /\ workers' = r.workers
  /\ UNCHANGED <<completed, Background>>

\* tasks cleared by a 'completed' report are counted in completed
ReportStatus(id, status_update, final) ==
  /\ Calls(id, "update_status", final)
  /\ LET r == update_status(tasks, workers, id, status_update) IN
       /\ tasks' = r.tasks
       /\ workers' = r.workers
  /\ completed' =
       IF id \in DOMAIN workers /\ Truthy(workers[id].assignment)
          /\ status_update = "completed"
       THEN [t \in TaskIds |->
               completed[t] + Count(workers[id].assignment.file_names, t)]
       ELSE completed
  /\ UNCHANGED Background

TimeoutChecker ==
  /\ lock = "free"
  /\ checker = "running"
  /\ sweep_sleep = 0
  /\ LET r == timeout_checker(tasks, workers) IN
       /\ tasks' = r.tasks
       /\ workers' = r.workers
       /\ checker' = IF r.crashed THEN "crashed" ELSE "running"
  /\ sweep_sleep' = SWEEP_PERIOD
  /\ UNCHANGED <<agent, completed, notifier, notifications, teardowns, stalled,
                 lock, dashboard_pc>>

\* One pass of shutdown_notifier up to its decision: it takes the lock and
\* inspects the registry; if the fleet is drained it goes on, inside the
\* `with lock` block, to its external calls (TerminalCalls).
ShutdownNotifier ==
  /\ lock = "free"
  /\ notifier = "running"
  /\ lock' = IF all_shutting_down(workers) THEN "shutdown_notifier" ELSE "free"
  /\ UNCHANGED <<agent, tasks, workers, completed, sweep_sleep, checker, notifier,
                 notifications, teardowns, stalled, dashboard_pc>>

\* send_email_notification() and shutdown_instance(), called by
\* shutdown_notifier inside its `with lock` block; sys.exit in
\* shutdown_instance ends the thread, which unwinds the block.
TerminalCalls ==
  /\ lock = "shutdown_notifier"
  /\ notifications' = notifications + 1
  /\ teardowns' = teardowns + 1
  /\ notifier' = "exited"
  /\ lock' = "free"
  /\ UNCHANGED <<agent, tasks, workers, completed, sweep_sleep, checker, stalled,
                 dashboard_pc>>

\* The critical section of dashboard.
Dashboard ==
  /\ lock = "free"
  /\ dashboard_pc = "idle"
  /\ LET r == dashboard(tasks, workers) IN
       /\ tasks' = r.tasks
       /\ workers' = r.workers
  /\ dashboard_pc' = "render"
  /\ UNCHANGED <<agent, completed, sweep_sleep, checker, notifier, notifications,
                 teardowns, stalled, lock>>

\* The return statement of dashboard, after its `with lock` block: it reads
\* len(tasks) and renders the page.
DashboardRender ==
  /\ dashboard_pc = "render"
  /\ dashboard_pc' = "idle"
  /\ UNCHANGED <<agent, tasks, workers, completed, sweep_sleep, checker, notifier,
                 notifications, teardowns, stalled, lock>>

\* get_logs returns the log lines; the log is no part of the scheduler's state.
GetLogs ==
  /\ lock = "free"
  /\ LET r == get_logs(tasks, workers) IN
       /\ tasks' = r.tasks
       /\ workers' = r.workers
  /\ UNCHANGED <<completed, stalled, Background>>

\* Time passes; it cannot pass the moment timeout_checker is due to wake,
\* unless timeout_checker has to wait for the lock.
Tick ==
  /\ sweep_sleep > 0 \/ checker = "crashed" \/ lock # "free"
  /\ sweep_sleep' = IF sweep_sleep > 0 THEN sweep_sleep - 1 ELSE 0
  /\ workers' = advance(workers)
  /\ UNCHANGED <<agent, tasks, completed, checker, notifier, notifications,
                 teardowns, stalled, lock, dashboard_pc>>

Next ==
  \/ Register
  \/ \E id \in WorkerIds : GetAssignment(id, FALSE)
  \/ \E id \in WorkerIds : Acknowledge(id, FALSE)
  \/ \E id \in WorkerIds : \E s \in StatusUpdates : ReportStatus(id, s, FALSE)
  \/ TimeoutChecker
  \/ ShutdownNotifier
  \/ TerminalCalls
  \/ Tick

Spec == Init /\ [][Next]_vars

\* As Spec, and a worker may stop calling after an acknowledgement.
AckStallNext ==
  \/ Register
  \/ \E id \in WorkerIds : GetAssignment(id, FALSE)
  \/ \E id \in WorkerIds : \E final \in BOOLEAN : Acknowledge(id, final)
  \/ \E id \in WorkerIds : \E s \in StatusUpdates : ReportStatus(id, s, FALSE)
  \/ TimeoutChecker
  \/ ShutdownNotifier
  \/ TerminalCalls
  \/ Tick

AckStallSpec == Init /\ [][AckStallNext]_vars

\* Leases that end by timeout only: workers poll, acknowledge, send heartbeats
\* and free-form reports, and one of them may stop calling after any call;
\* nothing is completed.  Time passes and timeout_checker keeps running; the
\* workers owe no call.
StallNext ==
  \/ Register
  \/ \E id \in WorkerIds : \E final \in BOOLEAN : GetAssignment(id, final)
  \/ \E id \in WorkerIds : \E final \in BOOLEAN : Acknowledge(id, final)
  \/ \E id \in WorkerIds : \E s \in {"processing", "paused"} : \E final \in BOOLEAN :
       ReportStatus(id, s, final)
  \/ TimeoutChecker
  \/ Tick

StallSpec ==
  /\ Init /\ [][StallNext]_vars
  /\ WF_vars(Tick) /\ WF_vars(TimeoutChecker)

\* Introspection while batches are leased: workers poll, acknowledge, send
\* heartbeats and report 'completed' or 'failed', timeout_checker sweeps, and
\* the dashboard and the log are requested at any moment.
IntrospectNext ==
  \/ Register
  \/ \E id \in WorkerIds : GetAssignment(id, FALSE)
  \/ \E id \in WorkerIds : Acknowledge(id, FALSE)
  \/ \E id \in WorkerIds : \E s \in {"completed", "failed", "processing"} :
       ReportStatus(id, s, FALSE)
  \/ TimeoutChecker
  \/ Tick
  \/ Dashboard
  \/ DashboardRender
  \/ GetLogs

IntrospectSpec == Init /\ [][IntrospectNext]_vars

\* ---- the main loop of Worker.py; every request is served under the lock
AgentCall(T, W) ==
  /\ lock = "free"
  /\ tasks' = T
  /\ workers' = W
  /\ UNCHANGED <<sweep_sleep, checker, notifier, notifications, teardowns,
                 stalled, lock, dashboard_pc>>

AgentStep ==
  UNCHANGED <<tasks, workers, completed, sweep_sleep, checker, notifier,
              notifications, teardowns, stalled, lock, dashboard_pc>>

\* worker_id = register_worker()
AgentRegister ==
  /\ agent.pc = "register"
  /\ AgentCall(tasks, register_worker(workers))
  /\ agent' = [agent EXCEPT !.pc = "start_docker_container",
                            !.worker_id = Len(workers) + 1]
  /\ UNCHANGED completed

\* start_docker_container(); if it fails: update_status 'failed', then
\* shutdown_instance()
AgentStartContainer ==
  /\ agent.pc = "start_docker_container"
  /\ \E started \in BOOLEAN :
       IF started
       THEN /\ agent' = [agent EXCEPT !.pc = "poll"]
            /\ AgentStep
       ELSE LET r == update_status(tasks, workers, agent.worker_id, "failed") IN
            /\ AgentCall(r.tasks, r.workers)
            /\ agent' = [agent EXCEPT !.pc = "shutdown_instance"]
            /\ UNCHANGED completed

\* assignment = poll_for_assignment(worker_id), and the branch taken on it
AgentPoll ==
  /\ agent.pc = "poll"
  /\ LET r == get_assignment(tasks, workers, agent.worker_id)
         assignment == r.response.assignment
     IN /\ AgentCall(r.tasks, r.workers)
        /\ agent' =
             IF assignment.kind = "shutdown"
             THEN [agent EXCEPT !.pc = "shutting-down"]
             ELSE IF Len(assignment.file_names) > 0
             THEN [agent EXCEPT !.pc = "send_ack", !.download = "none",
                                !.segmentation = "none", !.upload = "none",
                                !.reported = "none"]
             ELSE agent
  /\ UNCHANGED completed

\* update_status(worker_id, "shutting-down") on the shutdown directive
AgentReportShutdown ==
  /\ agent.pc = "shutting-down"
  /\ LET r == update_status(tasks, workers, agent.worker_id, "shutting-down") IN
       AgentCall(r.tasks, r.workers)
  /\ agent' = [agent EXCEPT !.pc = "shutdown_instance"]
  /\ UNCHANGED completed

\* shutdown_instance(): reports 'shutting-down' and ends the process
AgentShutdown ==
  /\ agent.pc = "shutdown_instance"
  /\ LET r == update_status(tasks, workers, agent.worker_id, "shutting-down") IN
       AgentCall(r.tasks, r.workers)
  /\ agent' = [agent EXCEPT !.pc = "exited"]
  /\ UNCHANGED completed

\* send_ack(worker_id)
AgentAck ==
  /\ agent.pc = "send_ack"
  /\ LET r == acknowledge_assignment(tasks, workers, agent.worker_id) IN
       AgentCall(r.tasks, r.workers)
  /\ agent' = [agent EXCEPT !.pc = "processing"]
  /\ UNCHANGED completed

\* update_status(worker_id, "processing")
AgentHeartbeat ==
  /\ agent.pc = "processing"
  /\ LET r == update_status(tasks, workers, agent.worker_id, "processing") IN
       AgentCall(r.tasks, r.workers)
  /\ agent' = [agent EXCEPT !.pc = "download_files"]
  /\ UNCHANGED completed

\* process_files, step 1: the S3 downloads succeed or one of them raises
AgentDownload ==
  /\ agent.pc = "download_files"
  /\ \E transfers_ok \in BOOLEAN :
       agent' = [agent EXCEPT
          !.download = Outcome(transfers_ok),
          !.pc = IF download_files(transfers_ok) THEN "run_segmentation"
                                                 ELSE "report"]
  /\ AgentStep

\* process_files, step 2: the script in the container exits zero or non-zero
AgentSegmentation ==
  /\ agent.pc = "run_segmentation"
  /\ \E exit_zero \in BOOLEAN :
       agent' = [agent EXCEPT
          !.segmentation = Outcome(exit_zero),
          !.pc = IF run_segmentation(exit_zero) THEN "upload_results"
                                                ELSE "report"]
  /\ AgentStep

\* process_files, step 3: the S3 uploads succeed or one of them raises
AgentUpload ==
  /\ agent.pc = "upload_results"
  /\ \E transfers_ok \in BOOLEAN :
       agent' = [agent EXCEPT !.upload = Outcome(transfers_ok), !.pc = "report"]
  /\ AgentStep

\* update_status 'completed' if process_files returned success, else 'failed'
AgentReport ==
  /\ agent.pc = "report"
  /\ LET success == process_files(agent.download, agent.segmentation, agent.upload)
         status == IF success THEN "completed" ELSE "failed"
         r == update_status(tasks, workers, agent.worker_id, status)
     IN /\ AgentCall(r.tasks, r.workers)
        /\ agent' = [agent EXCEPT !.pc = "poll", !.reported = status]
        /\ completed' =
             IF Truthy(workers[agent.worker_id].assignment) /\ status = "completed"
             THEN [t \in TaskIds |-> completed[t] +
                     Count(workers[agent.worker_id].assignment.file_names, t)]
             ELSE completed

\* One Worker.py process against the scheduler, with time passing and
\* timeout_checker sweeping while the worker polls and processes.
AgentNext ==
  \/ AgentRegister
  \/ AgentStartContainer
  \/ AgentPoll
  \/ AgentReportShutdown
  \/ AgentShutdown
  \/ AgentAck
  \/ AgentHeartbeat
  \/ AgentDownload
  \/ AgentSegmentation
  \/ AgentUpload
  \/ AgentReport
  \/ TimeoutChecker
  \/ Tick

AgentSpec == Init /\ [][AgentNext]_vars

\* Free-form reports: update_status stores any other string a worker sends as
\* its status, among them the names of the scheduler's own states.  Workers
\* poll, acknowledge and report 'completed' or such a name; timeout_checker
\* sweeps.
FreeFormNext ==
  \/ Register
  \/ \E id \in WorkerIds : GetAssignment(id, FALSE)
  \/ \E id \in WorkerIds : Acknowledge(id, FALSE)
  \/ \E id \in WorkerIds : \E s \in {"completed", "idle", "unavailable"} :
       ReportStatus(id, s, FALSE)
  \/ TimeoutChecker
  \/ Tick

FreeFormSpec == Init /\ [][FreeFormNext]_vars

\* The drain: as Spec, but a worker that has reported 'shutting-down' sends no
\* acknowledgement and no further report; it may still poll for an assignment.
\* Time passes and shutdown_notifier keeps running its passes (its loop ends
\* only once it has fired); the workers owe no call.
DrainNext ==
  \/ Register
  \/ \E id \in WorkerIds : GetAssignment(id, FALSE)
  \/ \E id \in DOMAIN workers :
       /\ workers[id].status # "shutting-down"
       /\ Acknowledge(id, FALSE)
  \/ \E id \in DOMAIN workers : \E s \in StatusUpdates :
       /\ workers[id].status # "shutting-down"
       /\ ReportStatus(id, s, FALSE)
  \/ TimeoutChecker
  \/ ShutdownNotifier
  \/ TerminalCalls
  \/ Tick

DrainSpec ==
  /\ Init /\ [][DrainNext]_vars
  /\ WF_vars(Tick) /\ SF_vars(ShutdownNotifier) /\ WF_vars(TerminalCalls)

\* ============================================================ properties
Last(h) == h[Len(h)]

RECURSIVE Flatten(_)
Flatten(seqs) == IF seqs = <<>> THEN <<>> ELSE Head(seqs) \o Flatten(Tail(seqs))

\* the file lists of all workers' current assignments, in registry order
Assigned == Flatten([id \in DOMAIN workers |-> workers[id].assignment.file_names])

RECURSIVE Sum(_, _)
Sum(f, S) == IF S = {} THEN 0
             ELSE LET x == CHOOSE y \in S : TRUE IN f[x] + Sum(f, S \ {x})

HoldsBatch(id) == id \in DOMAIN workers /\ workers[id].assignment.kind = "batch"

\* C1. Conservation: in every reachable state the number of tasks in the pool
\* plus the number of tasks in all workers' current assignments plus the number
\* of tasks cleared by a 'completed' report equals the number of tasks
\* originally discovered.
C1_Conservation ==
  Len(tasks) + Len(Assigned) + Sum(completed, TaskIds) = NumTasks

\* C2. No double assignment: every task identifier occurs at most once across
\* the pool and all workers' current assignments taken together.
C2_NoDoubleAssignment ==
  \A t \in TaskIds : Count(tasks, t) + Count(Assigned, t) <= 1

\* a failed batch was requeued behind task 3 and both workers hold a batch again
C2_Witness ==
  /\ HoldsBatch(1) /\ HoldsBatch(2)
  /\ \E id \in {1, 2} : workers[id].assignment.file_names = <<3, 1>>
  /\ \E id \in {1, 2} : workers[id].assignment.file_names = <<2>>

\* file_batch lies in the part of pool T1 that was appended behind pool T0
AppendedBehind(T0, T1, file_batch) ==
  \E k \in Len(T0)..(Len(T1) - Len(file_batch)) :
     SubSeq(T1, k + 1, k + Len(file_batch)) = file_batch

C7_IdempotentGetAssignment ==
  \A id \in DOMAIN workers :
     LET r1 == get_assignment(tasks, workers, id)
         r2 == get_assignment(r1.tasks, r1.workers, id)
     IN /\ r2.response.code = r1.response.code
        /\ r2.response.assignment = r1.response.assignment
        /\ r2.tasks = r1.tasks
        /\ r2.workers = r1.workers
        /\ workers[id].assignment # None
           => /\ r1.response.code = 200
              /\ r1.response.assignment = workers[id].assignment
              /\ r1.tasks = tasks
              /\ r1.workers = workers

\* a worker holds a batch it was issued while the pool still has tasks to take
C7_Witness ==
  \E id \in DOMAIN workers :
     /\ workers[id].assignment = batch_assignment(<<1, 2>>)
     /\ workers[id].history = <<"assignment_assigned">>
     /\ tasks = <<3>>

\* C8. FIFO batching: when a worker with no assignment calls getAssignment and
\* the pool is non-empty, the issued batch is exactly the first
\* min(BATCH_SIZE, |pool|) tasks of the pool in pool order, the pool afterwards
\* is the remaining suffix, the worker's status becomes WAITING_ACK and its
\* assignment timestamp is set to now; a following call by another worker
\* without an assignment receives the next prefix.
C8_FifoBatching ==
  \A id \in DOMAIN workers :
     (workers[id].assignment = None /\ Len(tasks) > 0)
     => LET n  == IF Len(tasks) < BATCH_SIZE THEN Len(tasks) ELSE BATCH_SIZE
            r1 == get_assignment(tasks, workers, id)
        IN /\ r1.response.code = 200
           /\ r1.response.assignment.kind = "batch"
           /\ r1.response.assignment.file_names = [i \in 1..n |-> tasks[i]]
           /\ r1.workers[id].assignment = r1.response.assignment
           /\ r1.tasks = [i \in 1..(Len(tasks) - n) |-> tasks[n + i]]
           /\ r1.workers[id].status = "waiting_ack"
           /\ r1.workers[id].assignment_timestamp = 0
           /\ \A id2 \in DOMAIN workers \ {id} :
                (workers[id2].assignment = None /\ Len(tasks) > n)
                => LET m  == IF Len(tasks) - n < BATCH_SIZE THEN Len(tasks) - n
                                                            ELSE BATCH_SIZE
                       r2 == get_assignment(r1.tasks, r1.workers, id2)
                   IN /\ r2.response.assignment.file_names =
                           [i \in 1..m |-> tasks[n + i]]
                      /\ r2.tasks = [i \in 1..(Len(tasks) - n - m) |-> tasks[n + m + i]]

\* two workers hold the consecutive prefixes <<1, 2>> and <<3>> of the pool
C8_Witness ==
  /\ HoldsBatch(1) /\ HoldsBatch(2)
  /\ workers[1].assignment.file_names = <<1, 2>>
  /\ workers[1].status = "waiting_ack"
  /\ workers[2].assignment.file_names = <<3>>
  /\ workers[2].status = "waiting_ack"
  /\ tasks = <<>>

\* the batches a reclaimer pass returns, in the order of the registry
ExpiredBatches ==
  Flatten([id \in DOMAIN workers |->
     IF \/ /\ workers[id].status = "waiting_ack"
           /\ workers[id].assignment_timestamp > ACK_TIMEOUT
        \/ /\ workers[id].status = "processing"
           /\ workers[id].processing_start > PROCESSING_TIMEOUT
     THEN workers[id].assignment.file_names ELSE <<>>])

C10_DrainSafety ==
  [][(notifications' # notifications \/ teardowns' # teardowns)
     => /\ Len(workers) > 0
        /\ \A id \in DOMAIN workers : workers[id].status = "shutting-down"
        /\ notifications = 0 /\ notifications' = 1
        /\ teardowns = 0 /\ teardowns' = 1]_vars

\* the coordinator has fired and a worker has called again afterwards
C10_Witness ==
  /\ notifications = 1 /\ teardowns = 1
  /\ \E id \in DOMAIN workers : workers[id].status # "shutting-down"

\* worker id made its last protocol call, and it was `call`
Stalled(id, call) == stalled = [id |-> id, call |-> call]

\* C3. Stalled-lease reclamation: if a worker holds a batch and makes no
\* further protocol calls, then, with time passing and the reclaimer running,
\* the worker's assignment is eventually cleared (its tasks returned to the
\* pool), whatever calls it made before it went silent.
C3_StalledLeaseReclaimed ==
  HoldsBatch(stalled.id) ~> ~HoldsBatch(stalled.id)

\* C4. Processing-timeout correctness: a worker whose last call was the
\* acknowledgement of its batch still holds the batch while at most
\* PROCESSING_TIMEOUT + SWEEP_PERIOD has passed since the acknowledgement; the
\* batch leaves it only after more than PROCESSING_TIMEOUT has passed, and in
\* that step the batch's tasks are appended to the pool, the status becomes
\* UNAVAILABLE and the assignment and the processing-start timestamp are
\* cleared.
C4_ProcessingTimeout ==
  [][\A id \in DOMAIN workers :
       (Stalled(id, "acknowledge_assignment") /\ HoldsBatch(id))
       => /\ workers[id].status = "processing"
          /\ workers[id].processing_start # NoTime
          /\ workers[id].processing_start <= PROCESSING_TIMEOUT + SWEEP_PERIOD
          /\ workers'[id].assignment # workers[id].assignment
             => /\ workers[id].processing_start > PROCESSING_TIMEOUT
                /\ AppendedBehind(tasks, tasks', workers[id].assignment.file_names)
                /\ workers'[id].status = "unavailable"
                /\ workers'[id].assignment = None
                /\ workers'[id].processing_start = NoTime]_vars

\* the batch of a worker that acknowledged and went silent was reclaimed
C4_Witness ==
  \E id \in DOMAIN workers :
     /\ Stalled(id, "acknowledge_assignment")
     /\ workers[id].history = <<"processing_timeout">>
     /\ workers[id].status = "unavailable"
     /\ workers[id].assignment = None
     /\ workers[id].processing_start = NoTime
     /\ Len(tasks) > 0

\* C6. At-least-once completion: no discovered task is ever lost, that is,
\* every task is in the pool, in some worker's current assignment or already
\* cleared by a 'completed' report, so that it can still be completed.
C6_NoTaskLost ==
  \A t \in TaskIds : Count(tasks, t) + Count(Assigned, t) + completed[t] >= 1

\* the pool is empty, every worker that will ever register is registered and
\* the latest call of each of them was a 'shutting-down' report
Drained ==
  /\ Len(tasks) = 0
  /\ Len(workers) = MaxWorkers
  /\ \A id \in DOMAIN workers : workers[id].status = "shutting-down"

\* C11. Drain liveness: once the pool has emptied and every registered worker
\* has reported 'shutting-down', the drain coordinator, run fairly, eventually
\* fires, also when a worker polls getAssignment again after its report.
C11_DrainLiveness == Drained ~> (notifications = 1 /\ teardowns = 1)

\* C12. Single exclusion domain: every read of the pool or the registry happens
\* inside one critical section of its caller, so while a dashboard request is
\* between its inspection of the registry and its read of the pool no other
\* caller's update of the pool falls in between.
C12_SingleExclusionDomain ==
  [][dashboard_pc = "render" => tasks' = tasks]_vars

\* C13. Read-only introspection: a dashboard or get_logs call leaves the pool
\* and every worker record (status, assignment contents, timestamps, history)
\* exactly as it found them.
C13_ReadOnlyIntrospection ==
  [][(Dashboard \/ DashboardRender \/ GetLogs)
     => (tasks' = tasks /\ workers' = workers)]_vars

\* C14. Batch immutability and atomicity: the stored assignment of a worker
\* that holds a batch changes only by being cleared, and when it is cleared
\* either all of its tasks are counted as completed or all of them are
\* appended to the pool.
C14_BatchImmutable ==
  [][\A id \in DOMAIN workers :
       (workers[id].assignment.kind = "batch"
        /\ workers'[id].assignment # workers[id].assignment)
       => /\ workers'[id].assignment = None
          /\ \/ /\ AppendedBehind(tasks, tasks', workers[id].assignment.file_names)
                /\ completed' = completed
             \/ /\ tasks' = tasks
                /\ \A t \in TaskIds : completed'[t] =
                      completed[t] + Count(workers[id].assignment.file_names, t)]_vars

\* C15. No external call under the lock: the notification and the teardown are
\* invoked only while no thread holds the lock.
C15_NoExternalCallUnderLock ==
  [][(notifications' # notifications \/ teardowns' # teardowns)
     => lock = "free"]_vars

\* C16. NotRegistered: get_assignment, acknowledge_assignment and
\* update_status called with a worker identifier that is not in the registry
\* each answer 404 and leave the pool and the registry as they are.
C16_NotRegistered ==
  \A id \in WorkerIds \ DOMAIN workers :
     LET g == get_assignment(tasks, workers, id)
         a == acknowledge_assignment(tasks, workers, id)
     IN /\ g.response.code = 404 /\ g.tasks = tasks /\ g.workers = workers
        /\ a.response.code = 404 /\ a.tasks = tasks /\ a.workers = workers
        /\ \A s \in StatusUpdates :
              LET u == update_status(tasks, workers, id, s)
              IN u.response.code = 404 /\ u.tasks = tasks /\ u.workers = workers

\* identifier 2 is unknown while worker 1 holds a batch and a task is pending
C16_Witness ==
  /\ Len(workers) = 1
  /\ workers[1].assignment = batch_assignment(<<1, 2>>)
  /\ tasks = <<3>>

\* C17. Acknowledge: for a registered worker without an assignment
\* acknowledge_assignment answers 400 and changes nothing; for a worker with an
\* assignment it sets the status to PROCESSING, starts the processing clock,
\* clears the assignment timestamp and appends one 'processing' event, leaving
\* the pool, the assignment and the other workers as they are.
C17_Acknowledge ==
  \A id \in DOMAIN workers :
     LET r == acknowledge_assignment(tasks, workers, id)
     IN IF workers[id].assignment = None
        THEN r.response.code = 400 /\ r.tasks = tasks /\ r.workers = workers
        ELSE /\ r.response.code = 200
             /\ r.tasks = tasks
             /\ r.workers[id].status = "processing"
             /\ r.workers[id].processing_start = 0
             /\ r.workers[id].assignment_timestamp = NoTime
             /\ r.workers[id].history = HistAppend(workers[id].history, "processing")
             /\ r.workers[id].assignment = workers[id].assignment
             /\ \A other \in DOMAIN workers \ {id} : r.workers[other] = workers[other]

\* a worker has just acknowledged the batch <<1, 2>>
C17_Witness ==
  \E id \in DOMAIN workers :
     /\ workers[id].assignment = batch_assignment(<<1, 2>>)
     /\ workers[id].status = "processing"
     /\ workers[id].processing_start = 0
     /\ workers[id].assignment_timestamp = NoTime
     /\ workers[id].history = <<"processing">>
     /\ tasks = <<3>>

\* C18. Shutdown directive on empty pool: when a registered worker without an
\* assignment calls get_assignment and the pool is empty, it receives the
\* shutdown directive, the directive is stored as its assignment, its status
\* becomes SHUTDOWN, one 'shutdown' event is appended, neither timestamp is set
\* and the pool stays empty; while the pool is non-empty the call issues a
\* batch, never the directive.
C18_ShutdownDirective ==
  \A id \in DOMAIN workers :
     workers[id].assignment = None
     => LET r == get_assignment(tasks, workers, id)
        IN IF Len(tasks) = 0
           THEN /\ r.response.code = 200
                /\ r.response.assignment = shutdown_assignment
                /\ r.workers[id] =
                     [workers[id] EXCEPT !.assignment = shutdown_assignment,
                                         !.status = "shutdown",
                                         !.history = HistAppend(@, "shutdown")]
                /\ r.tasks = <<>>
           ELSE /\ r.response.assignment.kind = "batch"
                /\ r.workers[id].assignment.kind = "batch"

\* a worker that polled the empty pool holds the directive
C18_Witness ==
  \E id \in DOMAIN workers :
     /\ workers[id].assignment = shutdown_assignment
     /\ workers[id].status = "shutdown"
     /\ workers[id].history = <<"shutdown">>
     /\ workers[id].assignment_timestamp = NoTime
     /\ workers[id].processing_start = NoTime
     /\ tasks = <<>>

\* C19. Heartbeat does not reset timers: a 'processing' report of a worker that
\* holds an assignment sets the status to PROCESSING and appends one
\* 'processing' event and leaves the assignment, both timestamps, the pool and
\* the other workers as they are; so a heartbeat that arrives more than
\* PROCESSING_TIMEOUT after the processing start does not save the lease from
\* the next reclaimer pass.
C19_HeartbeatKeepsTimers ==
  \A id \in DOMAIN workers :
     workers[id].assignment # None
     => LET r == update_status(tasks, workers, id, "processing")
        IN /\ r.tasks = tasks
           /\ r.workers[id] =
                [workers[id] EXCEPT !.status = "processing",
                                    !.history = HistAppend(@, "processing")]
           /\ \A other \in DOMAIN workers \ {id} : r.workers[other] = workers[other]
           /\ workers[id].processing_start > PROCESSING_TIMEOUT
              => LET c == timeout_checker(r.tasks, r.workers)
                 IN /\ c.workers[id].assignment = None
                    /\ c.workers[id].status = "unavailable"

\* a worker sent a heartbeat for a batch it never acknowledged: the ack
\* deadline it was issued with is still running
C19_Witness ==
  \E id \in DOMAIN workers :
     /\ HoldsBatch(id)
     /\ workers[id].status = "processing"
     /\ workers[id].history = <<"processing">>
     /\ workers[id].assignment_timestamp = ACK_TIMEOUT
     /\ workers[id].processing_start = NoTime

\* C20. Report without a lease: when a registered worker that holds no
\* assignment reports a status, its status becomes SHUTTING_DOWN for
\* 'shutting-down' and UNAVAILABLE for anything else, one history event is
\* appended, the rest of its record, the other workers and the pool are
\* unchanged and nothing is counted as completed.
C20_ReportWithoutLease ==
  [][\A id \in DOMAIN workers :
       workers[id].assignment = None
       => \A s \in StatusUpdates :
            ReportStatus(id, s, FALSE)
            => /\ tasks' = tasks
               /\ completed' = completed
               /\ workers' = [workers EXCEPT ![id] =
                     [@ EXCEPT !.status = IF s = "shutting-down"
                                          THEN "shutting-down" ELSE "unavailable",
                               !.history = HistAppend(@, s)]]]_vars

\* a 'completed' report came after the batch <<1, 2>> had been reclaimed: the
\* tasks are still in the pool and none is counted as completed
C20_Witness ==
  \E id \in DOMAIN workers :
     /\ workers[id].status = "unavailable"
     /\ workers[id].history = <<"completed">>
     /\ workers[id].assignment = None
     /\ tasks = <<3, 1, 2>>
     /\ \A t \in TaskIds : completed[t] = 0

RECURSIVE later(_, _)
\* the registry n time units later, nobody having called
later(W, n) == IF n = 0 THEN W ELSE later(advance(W), n - 1)

\* C21. Strict timeout boundary: a reclaimer pass reclaims a WAITING_ACK worker
\* only when more than ACK_TIMEOUT has passed since its assignment timestamp
\* and a PROCESSING worker only when more than PROCESSING_TIMEOUT has passed
\* since its processing start; a worker found exactly at the timeout is left
\* untouched by that pass and is reclaimed by the pass one sweep period later.
C21_StrictTimeoutBoundary ==
  \A id \in DOMAIN workers :
     LET c     == timeout_checker(tasks, workers)
         next  == timeout_checker(c.tasks, later(c.workers, SWEEP_PERIOD))
         age   == IF workers[id].status = "waiting_ack"
                  THEN workers[id].assignment_timestamp
                  ELSE IF workers[id].status = "processing"
                  THEN workers[id].processing_start
                  ELSE NoTime
         limit == IF workers[id].status = "waiting_ack" THEN ACK_TIMEOUT
                                                        ELSE PROCESSING_TIMEOUT
     IN /\ c.workers[id] # workers[id] <=> (age # NoTime /\ age > limit)
        /\ (age # NoTime /\ age > limit)
           => /\ c.workers[id].assignment = None
              /\ c.workers[id].status = "unavailable"
              /\ AppendedBehind(tasks, c.tasks, workers[id].assignment.file_names)
        /\ age = limit
           => /\ c.workers[id] = workers[id]
              /\ next.workers[id].assignment = None
              /\ next.workers[id].status = "unavailable"

\* a reclaimer pass has just left alone a worker that has been waiting for
\* exactly ACK_TIMEOUT, and another that has been processing for exactly
\* PROCESSING_TIMEOUT
C21_Witness ==
  /\ sweep_sleep = SWEEP_PERIOD
  /\ \E id \in DOMAIN workers :
       /\ workers[id].status = "waiting_ack"
       /\ workers[id].assignment_timestamp = ACK_TIMEOUT
       /\ HoldsBatch(id)
  /\ \E id \in DOMAIN workers :
       /\ workers[id].status = "processing"
       /\ workers[id].processing_start = PROCESSING_TIMEOUT
       /\ HoldsBatch(id)

\* C22. Empty-batch branch is unreachable: every assignment a worker holds, and
\* every assignment get_assignment would hand to a registered worker, is the
\* shutdown directive or a batch of at least 1 and at most BATCH_SIZE tasks;
\* the 'No tasks remaining' assignment with an empty file list is never
\* issued.
C22_NoEmptyBatch ==
  \A id \in DOMAIN workers :
     LET r == get_assignment(tasks, workers, id)
     IN /\ workers[id].assignment.kind \in {"None", "shutdown", "batch"}
        /\ r.response.assignment.kind \in {"shutdown", "batch"}
        /\ r.workers[id].assignment = r.response.assignment
        /\ r.response.assignment.kind = "batch"
           => /\ Len(r.response.assignment.file_names) >= 1
              /\ Len(r.response.assignment.file_names) <= BATCH_SIZE

\* the pool was emptied by a batch of BATCH_SIZE tasks and a batch of one task
C22_Witness ==
  /\ tasks = <<>>
  /\ \E id \in DOMAIN workers :
       HoldsBatch(id) /\ Len(workers[id].assignment.file_names) = BATCH_SIZE
  /\ \E id \in DOMAIN workers :
       HoldsBatch(id) /\ Len(workers[id].assignment.file_names) = 1
  /\ \A id \in DOMAIN workers : workers[id].history = <<"assignment_assigned">>

\* C23. Shutdown directive means work is done: whenever get_assignment issues
\* the shutdown directive, the pool is empty and no other worker holds a batch
\* whose tasks could still come back to the pool.
C23_DirectiveMeansDone ==
  \A id \in DOMAIN workers :
     LET r == get_assignment(tasks, workers, id)
     IN (workers[id].assignment = None /\ r.response.assignment.kind = "shutdown")
        => /\ Len(tasks) = 0
           /\ \A other \in DOMAIN workers \ {id} : ~HoldsBatch(other)

\* C24. Drain means processing is complete: in the step in which the drain
\* coordinator fires, the pool is empty, no worker holds a batch and every
\* discovered task has been cleared by a 'completed' report.
C24_DrainMeansComplete ==
  [][notifications' # notifications
     => /\ Len(tasks) = 0
        /\ \A id \in DOMAIN workers : ~HoldsBatch(id)
        /\ \A t \in TaskIds : completed[t] >= 1]_vars

\* C25. SHUTTING_DOWN is terminal: once a worker's status is SHUTTING_DOWN, no
\* operation changes its status or gives it an assignment.
C25_ShuttingDownTerminal ==
  [][\A id \in DOMAIN workers :
       workers[id].status = "shutting-down"
       => /\ workers'[id].status = "shutting-down"
          /\ workers'[id].assignment = workers[id].assignment]_vars

\* C26. Status/lease consistency: a worker whose status is WAITING_ACK or
\* PROCESSING holds an assignment, and a worker whose status is IDLE, FAILED,
\* UNAVAILABLE or SHUTTING_DOWN holds none.
C26_StatusLeaseConsistency ==
  \A id \in DOMAIN workers :
     /\ workers[id].status \in {"waiting_ack", "processing"}
        => workers[id].assignment # None
     /\ workers[id].status \in {"idle", "failed", "unavailable", "shutting-down"}
        => workers[id].assignment = None

\* C27. Timestamp consistency: a worker's assignment timestamp and processing
\* start are never both set; a worker without an assignment has both unset;
\* the assignment timestamp is set only on a batch that was issued and not
\* acknowledged since, and the processing start only on an assignment that
\* was acknowledged: get_assignment sets the one, acknowledge_assignment
\* swaps it for the other, and every other step leaves both alone (but for
\* their age) or clears them.
C27_TimestampConsistency ==
  [][\A id \in DOMAIN workers :
       LET w == workers[id]
           v == workers'[id]
       IN /\ ~(w.assignment_timestamp # NoTime /\ w.processing_start # NoTime)
          /\ w.assignment = None
             => (w.assignment_timestamp = NoTime /\ w.processing_start = NoTime)
          /\ w.assignment_timestamp # NoTime => w.assignment.kind = "batch"
          /\ (w.assignment_timestamp = NoTime /\ v.assignment_timestamp # NoTime)
             => (GetAssignment(id, FALSE) /\ w.assignment = None
                 /\ v.assignment.kind = "batch")
          /\ (w.assignment_timestamp # NoTime /\ v.assignment_timestamp # NoTime)
             => v.assignment = w.assignment
          /\ (w.processing_start = NoTime /\ v.processing_start # NoTime)
             => (Acknowledge(id, FALSE) /\ v.assignment_timestamp = NoTime)
          /\ (w.processing_start # NoTime /\ v.processing_start # NoTime)
             => v.assignment = w.assignment]_vars

\* a worker is inside its second lease: the batch <<3>> it acknowledged after
\* the batch <<1, 2>> it completed
C27_Witness ==
  \E id \in DOMAIN workers :
     /\ workers[id].assignment = batch_assignment(<<3>>)
     /\ workers[id].processing_start = 1
     /\ workers[id].assignment_timestamp = NoTime
     /\ completed[1] = 1 /\ completed[2] = 1

\* C28. Worker failure reporting: for every batch the worker has reported on,
\* it reported 'completed' if and only if the download, the segmentation
\* script run in the container and the upload all succeeded; if any of them
\* failed it reported 'failed'.
C28_FailureReported ==
  agent.reported # "none"
  => /\ agent.reported \in {"completed", "failed"}
     /\ agent.reported = "completed"
        <=> (agent.download = "ok" /\ agent.segmentation = "ok" /\ agent.upload = "ok")

====
